---- MODULE Spec2Model ----
(***************************************************************************)
(* A model of proj2_nps.py: the national-sites scraper with its on-disk    *)
(* response cache (proj2.json), the detail-page field extractor, the       *)
(* nearby-places client and the interactive loop.                          *)
(*                                                                         *)
(* Text is modelled as a sequence of tokens (a token is a character, or a  *)
(* fixed literal of the program such as "https://www.nps.gov"); string     *)
(* concatenation is \o.  A Python dict is a sequence of <<key, value>>     *)
(* pairs with distinct keys, in insertion order.                           *)
(***************************************************************************)
EXTENDS Integers, Sequences, FiniteSets, TLC

VARIABLES
  pc,          \* where the process is: a prompt of __main__, or a pure call
  file,        \* the content of proj2.json on disk
  sites_list,  \* __main__: the sites of the listed state
  state,       \* __main__: the lowercased answer to the state prompt
  option,      \* __main__: the lowercased answer to the detail prompt
  x,           \* __main__: the exit flag
  exc,         \* the exception that ended the process, or NoExc
  trace,       \* what the last handler did: prints, sleeps, requests, file writes
  calls,       \* the cache fetches of the last handler, one summary per call
  lookup,      \* __main__: the nearby-places lookup of the last detail choice
  arg,         \* the argument of the pure function under check
  res          \* its result

vars == <<pc, file, sites_list, state, option, x, exc, trace, calls, lookup, arg, res>>

(***************************************************************************)
(* Bounds of the model.                                                    *)
(***************************************************************************)
\* how many snapshots of the remote servers' content a request may see
NumSnapshots == 2
\* how many result items a places response in the pure check holds
MaxItems == 2

(***************************************************************************)
(* Python's str methods, on token sequences.                               *)
(***************************************************************************)
UpperLetters == <<"A","B","C","D","E","F","G","H","I","J","K","L","M",
                  "N","O","P","Q","R","S","T","U","V","W","X","Y","Z">>
LowerLetters == <<"a","b","c","d","e","f","g","h","i","j","k","l","m",
                  "n","o","p","q","r","s","t","u","v","w","x","y","z">>

IndexIn(seq, c) == CHOOSE i \in 1..Len(seq) : seq[i] = c
InSeq(seq, c) == \E i \in 1..Len(seq) : seq[i] = c

LowerChar(c) == IF InSeq(UpperLetters, c) THEN LowerLetters[IndexIn(UpperLetters, c)] ELSE c
UpperChar(c) == IF InSeq(LowerLetters, c) THEN UpperLetters[IndexIn(LowerLetters, c)] ELSE c

\* str.lower()
lower(s) == [i \in 1..Len(s) |-> LowerChar(s[i])]

Whitespace == {" ", "\n", "\t"}

RECURSIVE LStrip(_, _)
LStrip(s, chars) == IF s # <<>> /\ Head(s) \in chars THEN LStrip(Tail(s), chars) ELSE s
RECURSIVE RStrip(_, _)
RStrip(s, chars) ==
  IF s # <<>> /\ s[Len(s)] \in chars THEN RStrip(SubSeq(s, 1, Len(s) - 1), chars) ELSE s

\* str.strip()
strip(s) == RStrip(LStrip(s, Whitespace), Whitespace)
\* str.strip('\n')
strip_nl(s) == RStrip(LStrip(s, {"\n"}), {"\n"})

Digits == <<"0","1","2","3","4","5","6","7","8","9">>
\* a character str.isnumeric() accepts and int() rejects (U+00BD, one half)
VulgarHalf == "U+00BD"
NumericChars == {Digits[i] : i \in 1..10} \cup {VulgarHalf}

\* str.isnumeric()
isnumeric(s) == s # <<>> /\ \A i \in 1..Len(s) : s[i] \in NumericChars

\* int(s) succeeds on decimal digits (surrounding whitespace aside)
IntParses(s) == s # <<>> /\ \A i \in 1..Len(s) : InSeq(Digits, s[i])
RECURSIVE int(_)
int(s) == IF s = <<>> THEN 0 ELSE 10 * int(SubSeq(s, 1, Len(s) - 1)) + (IndexIn(Digits, s[Len(s)]) - 1)

(***************************************************************************)
(* Python dicts: sequences of <<key, value>> in insertion order.           *)
(***************************************************************************)
EmptyDict == <<>>
Keys(d) == {d[i][1] : i \in 1..Len(d)}
Values(d) == {d[i][2] : i \in 1..Len(d)}
Has(d, k) == \E i \in 1..Len(d) : d[i][1] = k
Get(d, k) == d[CHOOSE i \in 1..Len(d) : d[i][1] = k][2]
\* d[k] = v
Put(d, k, v) ==
  IF Has(d, k) THEN [i \in 1..Len(d) |-> IF d[i][1] = k THEN <<k, v>> ELSE d[i]]
  ELSE Append(d, <<k, v>>)

(***************************************************************************)
(* The state-name table and the state prompt's resolution.                 *)
(***************************************************************************)
states ==
  <<
    <<<<"a","l","a","s","k","a">>, <<"a","k">>>>,
    <<<<"a","l","a","b","a","m","a">>, <<"a","l">>>>,
    <<<<"a","r","k","a","n","s","a","s">>, <<"a","r">>>>,
    <<<<"a","m","e","r","i","c","a","n"," ","s","a","m","o","a">>, <<"a","s">>>>,
    <<<<"a","r","i","z","o","n","a">>, <<"a","z">>>>,
    <<<<"c","a","l","i","f","o","r","n","i","a">>, <<"c","a">>>>,
    <<<<"c","o","l","o","r","a","d","o">>, <<"c","o">>>>,
    <<<<"c","o","n","n","e","c","t","i","c","u","t">>, <<"c","t">>>>,
    <<<<"d","i","s","t","r","i","c","t"," ","o","f"," ","c","o","l","u","m","b","i","a">>, <<"d","c">>>>,
    <<<<"d","e","l","a","w","a","r","e">>, <<"d","e">>>>,
    <<<<"f","l","o","r","i","d","a">>, <<"f","l">>>>,
    <<<<"g","e","o","r","g","i","a">>, <<"g","a">>>>,
    <<<<"g","u","a","m">>, <<"g","u">>>>,
    <<<<"h","a","w","a","i","i">>, <<"h","i">>>>,
    <<<<"i","o","w","a">>, <<"i","a">>>>,
    <<<<"i","d","a","h","o">>, <<"i","d">>>>,
    <<<<"i","l","l","i","n","o","i","s">>, <<"i","l">>>>,
    <<<<"i","n","d","i","a","n","a">>, <<"i","n">>>>,
    <<<<"k","a","n","s","a","s">>, <<"k","s">>>>,
    <<<<"k","e","n","t","u","c","k","y">>, <<"k","y">>>>,
    <<<<"l","o","u","i","s","i","a","n","a">>, <<"l","a">>>>,
    <<<<"m","a","s","s","a","c","h","u","s","e","t","t","s">>, <<"m","a">>>>,
    <<<<"m","a","r","y","l","a","n","d">>, <<"m","d">>>>,
    <<<<"m","a","i","n","e">>, <<"m","e">>>>,
    <<<<"m","i","c","h","i","g","a","n">>, <<"m","i">>>>,
    <<<<"m","i","n","n","e","s","o","t","a">>, <<"m","n">>>>,
    <<<<"m","i","s","s","o","u","r","i">>, <<"m","o">>>>,
    <<<<"n","o","r","t","h","e","r","n"," ","m","a","r","i","a","n","a"," ","i","s","l","a","n","d","s">>, <<"m","p">>>>,
    <<<<"m","i","s","s","i","s","s","i","p","p","i">>, <<"m","s">>>>,
    <<<<"m","o","n","t","a","n","a">>, <<"m","t">>>>,
    <<<<"n","a","t","i","o","n","a","l">>, <<"n","a">>>>,
    <<<<"n","o","r","t","h"," ","c","a","r","o","l","i","n","a">>, <<"n","c">>>>,
    <<<<"n","o","r","t","h"," ","d","a","k","o","t","a">>, <<"n","d">>>>,
    <<<<"n","e","b","r","a","s","k","a">>, <<"n","e">>>>,
    <<<<"n","e","w"," ","h","a","m","p","s","h","i","r","e">>, <<"n","h">>>>,
    <<<<"n","e","w"," ","j","e","r","s","e","y">>, <<"n","j">>>>,
    <<<<"n","e","w"," ","m","e","x","i","c","o">>, <<"n","m">>>>,
    <<<<"n","e","v","a","d","a">>, <<"n","v">>>>,
    <<<<"n","e","w"," ","y","o","r","k">>, <<"n","y">>>>,
    <<<<"o","h","i","o">>, <<"o","h">>>>,
    <<<<"o","k","l","a","h","o","m","a">>, <<"o","k">>>>,
    <<<<"o","r","e","g","o","n">>, <<"o","r">>>>,
    <<<<"p","e","n","n","s","y","l","v","a","n","i","a">>, <<"p","a">>>>,
    <<<<"p","u","e","r","t","o"," ","r","i","c","o">>, <<"p","r">>>>,
    <<<<"r","h","o","d","e"," ","i","s","l","a","n","d">>, <<"r","i">>>>,
    <<<<"s","o","u","t","h"," ","c","a","r","o","l","i","n","a">>, <<"s","c">>>>,
    <<<<"s","o","u","t","h"," ","d","a","k","o","t","a">>, <<"s","d">>>>,
    <<<<"t","e","n","n","e","s","s","e","e">>, <<"t","n">>>>,
    <<<<"t","e","x","a","s">>, <<"t","x">>>>,
    <<<<"u","t","a","h">>, <<"u","t">>>>,
    <<<<"v","i","r","g","i","n","i","a">>, <<"v","a">>>>,
    <<<<"v","i","r","g","i","n"," ","i","s","l","a","n","d","s">>, <<"v","i">>>>,
    <<<<"v","e","r","m","o","n","t">>, <<"v","t">>>>,
    <<<<"w","a","s","h","i","n","g","t","o","n">>, <<"w","a">>>>,
    <<<<"w","i","s","c","o","n","s","i","n">>, <<"w","i">>>>,
    <<<<"w","e","s","t"," ","v","i","r","g","i","n","i","a">>, <<"w","v">>>>,
    <<<<"w","y","o","m","i","n","g">>, <<"w","y">>>>
  >>

\* [k for k, v in dictionary.items() if v == value][0]
get_key(dictionary, value) ==
  dictionary[CHOOSE i \in 1..Len(dictionary) :
               /\ dictionary[i][2] = value
               /\ \A j \in 1..(i - 1) : dictionary[j][2] # value][1]

base_url == <<"https://www.nps.gov">>
ExitWord == <<"e","x","i","t">>
BackWord == <<"b","a","c","k">>

\* the full-name branch building the URL from the name typed
ResolveState_by_name(st) ==
  IF Len(st) = 2 /\ st \in Values(states)
    THEN [branch |-> "url", state_url |-> base_url \o <<"/">> \o st \o <<"/">> \o <<"/index.htm">>]
  ELSE IF st = ExitWord
    THEN [branch |-> "exit", state_url |-> <<>>]
  ELSE IF st \in Keys(states)
    THEN [branch |-> "url", state_url |-> base_url \o <<"/">> \o st \o <<"/">> \o <<"/index.htm">>]
  ELSE [branch |-> "error", state_url |-> <<>>]

\* the if/elif chain that turns the lowercased answer into a state URL
ResolveState(st) ==
  IF Len(st) = 2 /\ st \in Values(states)
    THEN [branch |-> "url", state_url |-> base_url \o <<"/">> \o st \o <<"/">> \o <<"/index.htm">>]
  ELSE IF st = ExitWord
    THEN [branch |-> "exit", state_url |-> <<>>]
  ELSE IF st \in Keys(states)
    THEN [branch |-> "url",
          state_url |-> base_url \o <<"/">> \o Get(states, st) \o <<"/">> \o <<"/index.htm">>]
  ELSE [branch |-> "error", state_url |-> <<>>]

\* the state the listing header names
HeaderState(st) == IF Len(st) # 2 THEN lower(st) ELSE lower(get_key(states, st))

(***************************************************************************)
(* Values shared by the operations.                                        *)
(***************************************************************************)
NoExc == "none"
\* url=None
NoUrl == <<"None">>
\* a node or a key that may be missing: find() returning None, a KeyError
Absent == [present |-> FALSE, text |-> <<>>]
Opt(t) == [present |-> TRUE, text |-> t]

\* class NationalSite: __init__ and info
NationalSite(category, name, address, zipcode, phone, url) ==
  [category |-> category, name |-> name, address |-> address, zipcode |-> zipcode,
   phone |-> strip_nl(phone), url |-> url]
SiteInfo(s) == s.name \o <<" (">> \o s.category \o <<"): ">> \o s.address \o <<" ">> \o s.zipcode

\* class NearbyPlace: __init__ and info
NearbyPlace(name, category, street_address, city_name) ==
  [name |-> name, category |-> category, street_address |-> street_address,
   city_name |-> city_name]
PlaceInfo(p) ==
  p.name \o <<" (">> \o p.category \o <<"): ">> \o p.street_address \o <<", ">> \o p.city_name

(***************************************************************************)
(* What a handler does to the outside, in order.                           *)
(***************************************************************************)
EvPrint(t) == [ev |-> "print", what |-> t]
EvSleep == [ev |-> "sleep", what |-> <<"1">>]
EvGet(url) == [ev |-> "get", what |-> url]
EvApi(url, params) == [ev |-> "api", what |-> url, params |-> params]
EvWrite(f) == [ev |-> "write", what |-> f]
IsRequest(e) == e.ev \in {"get", "api"}

(***************************************************************************)
(* The remote servers.  A request made while snapshot v is live gets the   *)
(* content of snapshot v; the snapshots differ in one detail page and in   *)
(* one places response.                                                    *)
(***************************************************************************)
Snapshots == 1..NumSnapshots

StateUrl(abbr) == base_url \o <<"/">> \o abbr \o <<"/">> \o <<"/index.htm">>
SiteUrl(href) == base_url \o href \o <<"index.htm">>

StateDoc(results) == [doc |-> "state", has_results |-> TRUE, results |-> results]
SiteDoc(title, category, postal, locality, region, tel) ==
  [doc |-> "site", hero |-> TRUE, title |-> title, category |-> category,
   footer |-> TRUE, adr |-> TRUE, postal |-> postal, locality |-> locality,
   region |-> region, tel |-> tel]
\* what the server answers for a path it does not serve
ErrorDoc == [doc |-> "error", has_results |-> FALSE, hero |-> FALSE]

\* requests.get(url).text
Page(url, v) ==
  IF url = StateUrl(<<"m","i">>) THEN
    StateDoc(<<[name |-> <<"Isle Royale">>, href |-> <<"/isro/">>],
               [name |-> <<"Saint Croix">>, href |-> <<"/sacn/">>],
               [name |-> <<"Saint Croix">>, href |-> <<"/sacr/">>]>>)
  ELSE IF url = StateUrl(<<"o","h">>) THEN
    StateDoc(<<>>)
  ELSE IF url = SiteUrl(<<"/isro/">>) THEN
    SiteDoc(Opt(<<"Isle Royale">>), Opt(<<"\n", "National Park", " ">>), Opt(<<"49931">>),
            Opt(<<"Houghton">>), Opt(<<"MI">>), Opt(<<"\n", "(906) 482-0984 x", ToString(v), "\n">>))
  ELSE IF url = SiteUrl(<<"/sacn/">>) THEN
    SiteDoc(Opt(<<"Saint Croix">>), Opt(<<" ">>), Opt(<<"54024">>),
            Opt(<<"St. Croix Falls">>), Opt(<<"WI">>), Absent)
  ELSE IF url = SiteUrl(<<"/sacr/">>) THEN
    SiteDoc(Opt(<<"Saint Croix">>), Absent, Opt(<<"04619">>),
            Absent, Opt(<<"ME">>), Opt(<<"(207) 454-3871">>))
  ELSE ErrorDoc

PlaceItem(name, sic, sic_ext, address, city) ==
  [name |-> name,
   fields |-> [group_sic_code_name |-> sic, group_sic_code_name_ext |-> sic_ext,
               address |-> address, city |-> city]]

\* requests.get(base_url, params).json()
Places(params, v) ==
  IF params.origin = <<"49931">> THEN
    [searchResults |->
       <<PlaceItem(<<"Library">>, Opt(<<"Libraries">>), Opt(<<"Libraries">>),
                   Opt(<<"58 Huron St">>), Opt(<<"Houghton">>)),
         PlaceItem(<<"Dock">>, Absent, Opt(<<" Marinas ">>), Absent, Opt(<<>>))>>]
  ELSE IF params.origin = <<"54024">> THEN
    [searchResults |->
       <<PlaceItem(<<"Cafe">>, Opt(<<" ">>), Opt(<<"Restaurants">>),
                   Opt(<<>>), Opt(<<"St. Croix Falls">>))>>]
  ELSE IF params.origin = <<"04619">> THEN
    [searchResults |->
       IF v = 1 THEN <<>>
       ELSE <<PlaceItem(<<"Wharf ", ToString(v)>>, Absent, Absent,
                        Opt(<<"1 Water St">>), Opt(<<"Calais">>))>>]
  ELSE [searchResults |-> <<>>]

(***************************************************************************)
(* The cache store: proj2.json.                                            *)
(***************************************************************************)
FileMissing == [kind |-> "missing", members |-> <<>>]
FileGarbage == [kind |-> "garbage", members |-> <<>>]

\* json.dumps of one cached value: page text is a JSON string, a places
\* response a JSON object
ToJson(value) ==
  IF "doc" \in DOMAIN value THEN [type |-> "string", chars |-> value]
  ELSE [type |-> "object", members |-> value]
FromJson(j) == IF j.type = "string" THEN j.chars ELSE j.members

\* json.dumps(cache)
json_dumps(cache) ==
  [kind |-> "json",
   members |-> [i \in 1..Len(cache) |-> [name |-> cache[i][1], value |-> ToJson(cache[i][2])]]]

\* json.loads(text): on a repeated name the last member wins
RECURSIVE LoadMembers(_, _)
LoadMembers(members, d) ==
  IF members = <<>> THEN d
  ELSE LoadMembers(Tail(members), Put(d, Head(members).name, FromJson(Head(members).value)))
json_loads(text) == LoadMembers(text.members, EmptyDict)

load_cache(f) == IF f.kind = "json" THEN json_loads(f) ELSE EmptyDict

save_cache(cache) == json_dumps(cache)

\* a miss that stores the response and never saves the mapping
make_url_request_unsaved(url, cache, f, v) ==
  IF Has(cache, url) THEN
    [ret |-> Get(cache, url), cache |-> cache, file |-> f,
     events |-> <<EvPrint(<<"Using cache">>)>>]
  ELSE
    LET cache1 == Put(cache, url, Page(url, v))
    IN [ret |-> Get(cache1, url), cache |-> cache1, file |-> f,
        events |-> <<EvPrint(<<"Fetching">>), EvSleep, EvGet(url)>>]

\* a miss that sleeps after the request instead of before it
make_url_request_sleep_after(url, cache, f, v) ==
  IF Has(cache, url) THEN
    [ret |-> Get(cache, url), cache |-> cache, file |-> f,
     events |-> <<EvPrint(<<"Using cache">>)>>]
  ELSE
    LET cache1 == Put(cache, url, Page(url, v))
        f1 == save_cache(cache1)
    IN [ret |-> Get(cache1, url), cache |-> cache1, file |-> f1,
        events |-> <<EvPrint(<<"Fetching">>), EvGet(url), EvSleep, EvWrite(f1)>>]

\* the outcome of one cache fetch: the value returned, the mapping and the
\* file afterwards, and what the call did
make_url_request_using_cache(url, cache, f, v) ==
  IF Has(cache, url) THEN
    [ret |-> Get(cache, url), cache |-> cache, file |-> f,
     events |-> <<EvPrint(<<"Using cache">>)>>]
  ELSE
    LET cache1 == Put(cache, url, Page(url, v))
        f1 == save_cache(cache1)
    IN [ret |-> Get(cache1, url), cache |-> cache1, file |-> f1,
        events |-> <<EvPrint(<<"Fetching">>), EvSleep, EvGet(url), EvWrite(f1)>>]

MAP_KEY == <<"secrets.API_KEY">>

ApiParams(site_object) ==
  [key |-> MAP_KEY, origin |-> site_object.zipcode, radius |-> 10, maxMatches |-> 10,
   ambiguities |-> <<"ignore">>, outFormat |-> <<"json">>]

\* the API fetch starting from an empty mapping instead of the loaded one
make_request_with_cache_api_unloaded(api_url, site_object, f, v) ==
  LET cache_file == EmptyDict
      params == ApiParams(site_object)
  IN IF Has(cache_file, site_object.name) THEN
       [ret |-> Get(cache_file, site_object.name), cache |-> cache_file, file |-> f,
        events |-> <<EvPrint(<<"Using cache">>)>>]
     ELSE
       LET cache1 == Put(cache_file, site_object.name, Places(params, v))
           f1 == save_cache(cache1)
       IN [ret |-> Get(cache1, site_object.name), cache |-> cache1, file |-> f1,
           events |-> <<EvPrint(<<"Fetching">>), EvApi(api_url, params), EvWrite(f1)>>]

make_request_with_cache_api(api_url, site_object, f, v) ==
  LET cache_file == load_cache(f)
      params == ApiParams(site_object)
  IN IF Has(cache_file, site_object.name) THEN
       [ret |-> Get(cache_file, site_object.name), cache |-> cache_file, file |-> f,
        events |-> <<EvPrint(<<"Using cache">>)>>]
     ELSE
       LET cache1 == Put(cache_file, site_object.name, Places(params, v))
           f1 == save_cache(cache1)
       IN [ret |-> Get(cache1, site_object.name), cache |-> cache1, file |-> f1,
           events |-> <<EvPrint(<<"Fetching">>), EvApi(api_url, params), EvWrite(f1)>>]

\* the process's outside as a handler threads it through its calls
World(f) == [file |-> f, trace |-> <<>>, calls |-> <<>>]
\* a cache fetch r of key, made with the mapping cache, becomes part of w
AfterFetch(w, fn, key, cache, r) ==
  [file |-> r.file,
   trace |-> w.trace \o r.events,
   calls |-> Append(w.calls,
               [fn |-> fn, key |-> key, cache_in |-> cache, file_in |-> w.file,
                events |-> r.events, cache_out |-> r.cache, file_out |-> r.file,
                ret |-> r.ret])]

(***************************************************************************)
(* The HTML field extractor: get_site_instance.                            *)
(***************************************************************************)
NotFoundCategory == <<"Not found category">>
NotFoundZipcode == <<"Not found zipcode">>
NotFoundAddress == <<"Not found address">>
NotFoundPhone == <<"Not found phone number">>

\* the lookups outside any try: the title container and the title
SiteRaises(doc) == ~ doc.hero \/ ~ doc.title.present

ExtractCategory(doc) ==
  IF ~ doc.category.present THEN NotFoundCategory
  ELSE LET park_category == strip(doc.category.text)
       IN IF park_category = <<>> THEN NotFoundCategory ELSE park_category

ExtractZipcode(doc) ==
  IF ~ doc.footer \/ ~ doc.adr \/ ~ doc.postal.present THEN NotFoundZipcode
  ELSE strip(doc.postal.text)

ExtractAddress(doc) ==
  IF ~ doc.footer \/ ~ doc.adr \/ ~ doc.locality.present \/ ~ doc.region.present
    THEN NotFoundAddress
  ELSE doc.locality.text \o <<", ">> \o doc.region.text

ExtractPhone(doc) ==
  IF ~ doc.footer \/ ~ doc.tel.present THEN NotFoundPhone ELSE doc.tel.text

\* the site record built from a parsed detail page
ParseSite(doc) ==
  NationalSite(ExtractCategory(doc), doc.title.text, ExtractAddress(doc),
               ExtractZipcode(doc), ExtractPhone(doc), NoUrl)

get_site_instance(site_url, w, v) ==
  LET CACHE_DICT == load_cache(w.file)
      r == make_url_request_using_cache(site_url, CACHE_DICT, w.file, v)
      w1 == AfterFetch(w, "make_url_request_using_cache", site_url, CACHE_DICT, r)
  IN IF SiteRaises(r.ret) THEN [exc |-> "AttributeError", site |-> <<>>, w |-> w1]
     ELSE [exc |-> NoExc, site |-> ParseSite(r.ret), w |-> w1]

(***************************************************************************)
(* The site list builder: get_sites_for_state.                             *)
(***************************************************************************)
\* the for loop over the h3 entries of the state page, from entry i on
RECURSIVE SitesLoop(_, _, _, _, _)
SitesLoop(results, i, sites_instance_list, w, v) ==
  IF i > Len(results) THEN [exc |-> NoExc, list |-> sites_instance_list, w |-> w]
  ELSE
    LET park_name == results[i].name
        park_url == base_url \o results[i].href \o <<"index.htm">>
        p == get_site_instance(park_url, w, v)
    IN IF p.exc # NoExc THEN [exc |-> p.exc, list |-> sites_instance_list, w |-> p.w]
       ELSE SitesLoop(results, i + 1,
                      Append(sites_instance_list,
                             NationalSite(p.site.category, park_name, p.site.address,
                                          p.site.zipcode, p.site.phone, park_url)),
                      p.w, v)

get_sites_for_state(state_url, w, v) ==
  LET CACHE_DICT == load_cache(w.file)
      r == make_url_request_using_cache(state_url, CACHE_DICT, w.file, v)
      w1 == AfterFetch(w, "make_url_request_using_cache", state_url, CACHE_DICT, r)
  IN IF ~ r.ret.has_results THEN [exc |-> "AttributeError", list |-> <<>>, w |-> w1]
     ELSE SitesLoop(r.ret.results, 1, <<>>, w1, v)

(***************************************************************************)
(* The nearby-places client.                                               *)
(***************************************************************************)
MapQuestUrl == <<"http://www.mapquestapi.com/search/v2/radius">>

get_nearby_places(site_object, w, v) ==
  LET r == make_request_with_cache_api(MapQuestUrl, site_object, w.file, v)
  IN [ret |-> r.ret,
      w |-> AfterFetch(w, "make_request_with_cache_api", site_object.name,
                       load_cache(w.file), r)]

NoCategory == <<"no category">>
NoStreetAddress == <<"no street address">>
NoCity == <<"no city">>

\* the category lookup raises when the primary key is missing and the
\* alternate key is missing too
PlaceRaises(member) ==
  ~ member.fields.group_sic_code_name.present
    /\ ~ member.fields.group_sic_code_name_ext.present

PlaceCategory(member) ==
  IF member.fields.group_sic_code_name.present THEN
    LET nearby_category == strip(member.fields.group_sic_code_name.text)
    IN IF nearby_category = <<>> THEN NoCategory ELSE nearby_category
  ELSE strip(member.fields.group_sic_code_name_ext.text)

PlaceStreetAddress(member) ==
  IF ~ member.fields.address.present THEN NoStreetAddress
  ELSE LET nearby_street_address == strip(member.fields.address.text)
       IN IF nearby_street_address = <<>> THEN NoStreetAddress ELSE nearby_street_address

PlaceCity(member) ==
  IF ~ member.fields.city.present THEN NoCity
  ELSE LET nearby_city_name == strip(member.fields.city.text)
       IN IF nearby_city_name = <<>> THEN NoCity ELSE nearby_city_name

RECURSIVE NearbyLoop(_, _)
NearbyLoop(members, nearby_instance_list) ==
  IF members = <<>> THEN [exc |-> NoExc, list |-> nearby_instance_list]
  ELSE IF PlaceRaises(Head(members)) THEN [exc |-> "KeyError", list |-> nearby_instance_list]
  ELSE NearbyLoop(Tail(members),
                  Append(nearby_instance_list,
                         NearbyPlace(Head(members).name, PlaceCategory(Head(members)),
                                     PlaceStreetAddress(Head(members)),
                                     PlaceCity(Head(members)))))

make_nearby_instance_list(nearby_dict) == NearbyLoop(nearby_dict.searchResults, <<>>)

(***************************************************************************)
(* The interactive loop: __main__.                                         *)
(***************************************************************************)
Dashes == <<"--------------------------------------------------">>
StateError == <<"[Error] Enter proper state name \n">>
InputError == <<"[Error] Invalid input \n">>

NoLookup == [done |-> FALSE]

\* what the user may type at the state prompt
StateInputs ==
  { <<"M","I">>, <<"O","h","i","o">>,
    <<"e","x","i","t">>, <<"E","x","i","t">>, <<"x","x">>, <<"m","i","t","t","e","n">> }

\* what the user may type at the detail prompt
DetailInputs ==
  { <<"1">>, <<"2">>, <<"3">>, <<"4">>, <<"0">>, <<VulgarHalf>>, <<"a","b","c">>,
    <<"b","a","c","k">>, <<"B","a","c","k">>, <<"e","x","i","t">> }

\* list[i] for a Python index i, which may be negative
PyIndexRaises(list, i) == i >= Len(list) \/ i < 0 - Len(list)
PyIndex(list, i) == IF i >= 0 THEN list[i + 1] ELSE list[Len(list) + i + 1]

\* the numbered listing printed after the header
RECURSIVE ListingLoop(_, _)
ListingLoop(list, i) ==
  IF i > Len(list) THEN <<>>
  ELSE <<EvPrint(<<"[", " ", ToString(i), " ", "] ", " ">> \o SiteInfo(list[i]))>>
         \o ListingLoop(list, i + 1)

ListingHeader(st) ==
  <<EvPrint(Dashes),
    EvPrint(<<"List of national sites in", " ">> \o HeaderState(st)),
    EvPrint(Dashes)>>

RECURSIVE PlacesLoop(_)
PlacesLoop(list) ==
  IF list = <<>> THEN <<>>
  ELSE <<EvPrint(<<"-", " ">> \o PlaceInfo(Head(list)))>> \o PlacesLoop(Tail(list))

\* the process ends with an uncaught exception
Crash(e, w) ==
  /\ pc' = "Crashed"
  /\ exc' = e
  /\ file' = w.file
  /\ trace' = w.trace
  /\ calls' = w.calls

\* one pass of the outer loop, from the state prompt to the listing
StatePrompt(inp) ==
  /\ pc = "AwaitState"
  /\ LET st == lower(inp)
         r == ResolveState(st)
     IN /\ state' = st
        /\ IF r.branch = "exit" THEN
             /\ pc' = "Terminate"
             /\ trace' = <<>> /\ calls' = <<>>
             /\ UNCHANGED <<file, sites_list, exc>>
           ELSE IF r.branch = "error" THEN
             /\ pc' = "AwaitState"
             /\ trace' = <<EvPrint(StateError)>> /\ calls' = <<>>
             /\ UNCHANGED <<file, sites_list, exc>>
           ELSE
             \E v \in Snapshots :
             LET g == get_sites_for_state(r.state_url, World(file), v)
             IN IF g.exc # NoExc THEN Crash(g.exc, g.w) /\ UNCHANGED sites_list
                ELSE /\ pc' = "AwaitDetailChoice"
                     /\ sites_list' = g.list
                     /\ file' = g.w.file
                     /\ calls' = g.w.calls
                     /\ trace' = g.w.trace \o ListingHeader(st) \o ListingLoop(g.list, 1)
                     /\ UNCHANGED exc
  /\ UNCHANGED <<option, x, lookup, arg, res>>

\* one pass of the inner loop, from the detail prompt
DetailPrompt(inp) ==
  /\ pc = "AwaitDetailChoice"
  /\ LET opt == lower(inp)
     IN /\ option' = opt
        /\ IF opt = BackWord THEN
             /\ pc' = "AwaitState"
             /\ trace' = <<>> /\ calls' = <<>> /\ lookup' = NoLookup
             /\ UNCHANGED <<file, x, exc>>
           ELSE IF opt = ExitWord THEN
             /\ pc' = "Terminate"
             /\ x' = 1
             /\ trace' = <<>> /\ calls' = <<>> /\ lookup' = NoLookup
             /\ UNCHANGED <<file, exc>>
           ELSE IF isnumeric(opt) THEN
             IF ~ IntParses(opt) THEN
               Crash("ValueError", World(file)) /\ lookup' = NoLookup /\ UNCHANGED x
             ELSE IF int(opt) <= Len(sites_list) THEN
               IF PyIndexRaises(sites_list, int(opt) - 1) THEN
                 Crash("IndexError", World(file)) /\ lookup' = NoLookup /\ UNCHANGED x
               ELSE
                 \E v \in Snapshots :
                 LET site_url == PyIndex(sites_list, int(opt) - 1).url
                     p == get_site_instance(site_url, World(file), v)
                     n == get_nearby_places(p.site, p.w, v)
                     m == make_nearby_instance_list(n.ret)
                 IN IF p.exc # NoExc THEN
                      Crash(p.exc, p.w) /\ lookup' = NoLookup /\ UNCHANGED x
                    ELSE
                      /\ lookup' = [done |-> TRUE, url |-> site_url, site |-> p.site,
                                    nearbyplace |-> n.ret, listed |-> m.list]
                      /\ UNCHANGED x
                      /\ IF m.exc # NoExc THEN Crash(m.exc, n.w)
                         ELSE /\ pc' = "AwaitDetailChoice"
                              /\ file' = n.w.file
                              /\ calls' = n.w.calls
                              /\ trace' = n.w.trace
                                   \o <<EvPrint(Dashes),
                                        EvPrint(<<"Places near", " ">> \o strip(p.site.name)),
                                        EvPrint(Dashes)>>
                                   \o PlacesLoop(m.list)
                              /\ UNCHANGED exc
             ELSE
               /\ pc' = "AwaitDetailChoice"
               /\ trace' = <<EvPrint(InputError), EvPrint(Dashes)>>
               /\ calls' = <<>> /\ lookup' = NoLookup
               /\ UNCHANGED <<file, x, exc>>
           ELSE
             /\ pc' = "AwaitDetailChoice"
             /\ trace' = <<EvPrint(InputError), EvPrint(Dashes)>>
             /\ calls' = <<>> /\ lookup' = NoLookup
             /\ UNCHANGED <<file, x, exc>>
  /\ UNCHANGED <<sites_list, state, arg, res>>

\* the program is started again, with proj2.json as the last run left it
NewRun ==
  /\ pc \in {"Terminate", "Crashed"}
  /\ pc' = "AwaitState"
  /\ x' = 0
  /\ exc' = NoExc
  /\ sites_list' = <<>> /\ state' = <<>> /\ option' = <<>>
  /\ trace' = <<>> /\ calls' = <<>> /\ lookup' = NoLookup
  /\ UNCHANGED <<file, arg, res>>

Init ==
  /\ pc = "AwaitState"
  /\ file \in {FileMissing, FileGarbage}
  /\ sites_list = <<>> /\ state = <<>> /\ option = <<>>
  /\ x = 0
  /\ exc = NoExc
  /\ trace = <<>> /\ calls = <<>> /\ lookup = NoLookup
  /\ arg = <<>> /\ res = <<>>

Next ==
  \/ \E inp \in StateInputs : StatePrompt(inp)
  \/ \E inp \in DetailInputs : DetailPrompt(inp)
  \/ NewRun

Spec == Init /\ [][Next]_vars

(***************************************************************************)
(* The state prompt's resolution on the whole state-name table.            *)
(***************************************************************************)
Casings == {"lower", "upper", "title", "mixed"}

\* the answer s typed in one of the casings
Typed(s, c) ==
  [i \in 1..Len(s) |->
     IF c = "upper" THEN UpperChar(s[i])
     ELSE IF c = "title" THEN (IF i = 1 \/ s[i - 1] = " " THEN UpperChar(s[i]) ELSE s[i])
     ELSE IF c = "mixed" THEN (IF i % 2 = 0 THEN UpperChar(s[i]) ELSE s[i])
     ELSE s[i]]

\* what the outer loop makes of one answer: the branch taken, the state URL
\* and the state its listing header names
StateChoice(inp) ==
  LET st == lower(inp)
      r == ResolveState(st)
  IN [branch |-> r.branch, state_url |-> r.state_url,
      header |-> IF r.branch = "url" THEN HeaderState(st) ELSE <<>>]

Idle ==
  /\ file = FileMissing
  /\ sites_list = <<>> /\ state = <<>> /\ option = <<>>
  /\ x = 0
  /\ exc = NoExc
  /\ trace = <<>> /\ calls = <<>> /\ lookup = NoLookup

InitState ==
  /\ pc = "resolve"
  /\ arg \in [i : 1..Len(states), full_case : Casings, abbr_case : Casings]
  /\ res = <<>>
  /\ Idle

ResolveStep ==
  /\ pc = "resolve"
  /\ pc' = "resolved"
  /\ res' = [full |-> StateChoice(Typed(states[arg.i][1], arg.full_case)),
             abbr |-> StateChoice(Typed(states[arg.i][2], arg.abbr_case))]
  /\ UNCHANGED <<file, sites_list, state, option, x, exc, trace, calls, lookup, arg>>

SpecState == InitState /\ [][ResolveStep]_vars

(***************************************************************************)
(* get_site_instance's extraction on every shape of detail page.           *)
(***************************************************************************)
\* the text of a node: missing, empty, blank, or text inside whitespace
FieldTexts == {Absent, Opt(<<>>), Opt(<<" ", "\n">>), Opt(<<"\n", "text", " ">>)}
PartTexts == {Absent, Opt(<<>>), Opt(<<"part">>)}

SiteDocs ==
  [doc : {"site"}, hero : BOOLEAN, title : {Absent, Opt(<<"Fort">>)},
   category : FieldTexts, footer : BOOLEAN, adr : BOOLEAN, postal : FieldTexts,
   locality : PartTexts, region : PartTexts, tel : FieldTexts]

InitSite ==
  /\ pc = "parse"
  /\ arg \in SiteDocs
  /\ res = <<>>
  /\ Idle

ParseStep ==
  /\ pc = "parse"
  /\ pc' = "parsed"
  /\ res' = IF SiteRaises(arg) THEN [exc |-> "AttributeError", site |-> <<>>]
            ELSE [exc |-> NoExc, site |-> ParseSite(arg)]
  /\ UNCHANGED <<file, sites_list, state, option, x, exc, trace, calls, lookup, arg>>

SpecSite == InitSite /\ [][ParseStep]_vars

(***************************************************************************)
(* make_nearby_instance_list on every shape of places response.            *)
(***************************************************************************)
KeyTexts == {Absent, Opt(<<" ">>), Opt(<<" ", "text">>)}

PlaceItems ==
  {PlaceItem(<<"Place">>, sic, sic_ext, address, city) :
     sic \in KeyTexts, sic_ext \in KeyTexts, address \in KeyTexts, city \in KeyTexts}

RECURSIVE SeqsUpTo(_, _)
SeqsUpTo(S, n) ==
  IF n = 0 THEN {<<>>}
  ELSE LET shorter == SeqsUpTo(S, n - 1)
       IN shorter \cup {Append(s, e) : s \in {t \in shorter : Len(t) = n - 1}, e \in S}

InitNearby ==
  /\ pc = "convert"
  /\ arg \in {[searchResults |-> items] : items \in SeqsUpTo(PlaceItems, MaxItems)}
  /\ res = <<>>
  /\ Idle

ConvertStep ==
  /\ pc = "convert"
  /\ pc' = "converted"
  /\ res' = make_nearby_instance_list(arg)
  /\ UNCHANGED <<file, sites_list, state, option, x, exc, trace, calls, lookup, arg>>

SpecNearby == InitNearby /\ [][ConvertStep]_vars

(***************************************************************************)
(* Properties.                                                             *)
(***************************************************************************)
CallHit(c) == Has(c.cache_in, c.key)
RequestsOf(events) == {i \in 1..Len(events) : IsRequest(events[i])}
WritesOf(events) == {i \in 1..Len(events) : events[i].ev = "write"}
\* what the servers may answer to the request e
ResponsesTo(e) ==
  IF e.ev = "get" THEN {Page(e.what, v) : v \in Snapshots}
  ELSE {Places(e.params, v) : v \in Snapshots}

\* C1: a cache fetch of either cache returns the cached value on a hit, with
\* no request, no write and the mapping and the file as they were; on a miss
\* it makes exactly one request, stores the response under the key next to
\* the entries already there, writes the whole mapping to the file once and
\* returns the stored value, so that the file then holds the mapping.
C1_CacheFetch ==
  \A i \in 1..Len(calls) :
    LET c == calls[i]
    IN IF CallHit(c) THEN
         /\ c.ret = Get(c.cache_in, c.key)
         /\ RequestsOf(c.events) = {}
         /\ WritesOf(c.events) = {}
         /\ c.cache_out = c.cache_in
         /\ c.file_out = c.file_in
       ELSE
         /\ Cardinality(RequestsOf(c.events)) = 1
         /\ \A j \in RequestsOf(c.events) : c.ret \in ResponsesTo(c.events[j])
         /\ c.cache_out = Put(c.cache_in, c.key, c.ret)
         /\ Get(c.cache_out, c.key) = c.ret
         /\ Cardinality(WritesOf(c.events)) = 1
         /\ \A j \in WritesOf(c.events) : c.events[j].what = c.file_out
         /\ c.file_out.kind = "json"
         /\ json_loads(c.file_out) = c.cache_out

\* a lookup whose detail page was cached and whose places response was not
C1_Witness ==
  /\ pc = "AwaitDetailChoice"
  /\ Len(calls) = 2
  /\ calls[1].fn = "make_url_request_using_cache" /\ CallHit(calls[1])
  /\ calls[2].fn = "make_request_with_cache_api" /\ ~ CallHit(calls[2])
  /\ calls[2].key = <<"Saint Croix">>

\* C2: every key load_cache returns keeps its value over every step of every
\* run (no save removes or replaces it), and every value a handler stored on
\* a miss is what load_cache returns for its key afterwards.
C2_Persist ==
  [][ LET before == load_cache(file)
          after == load_cache(file')
      IN /\ \A i \in 1..Len(before) :
              /\ Has(after, before[i][1])
              /\ Get(after, before[i][1]) = before[i][2]
         /\ \A i \in 1..Len(calls') :
              ~ CallHit(calls'[i]) =>
                /\ Has(after, calls'[i].key)
                /\ Get(after, calls'[i].key) = calls'[i].ret ]_vars

\* the file holds a detail page stored while snapshot 1 was live beside a
\* places response stored while snapshot 2 was live
C2_Witness ==
  /\ Has(load_cache(file), SiteUrl(<<"/isro/">>))
  /\ Get(load_cache(file), SiteUrl(<<"/isro/">>)) = Page(SiteUrl(<<"/isro/">>), 1)
  /\ Has(load_cache(file), <<"Saint Croix">>)
  /\ Get(load_cache(file), <<"Saint Croix">>) = Places([origin |-> <<"04619">>], 2)
  /\ Has(load_cache(file), StateUrl(<<"o","h">>))
  /\ pc = "AwaitState"

\* C3: at the detail prompt with n sites listed, an answer other than "back"
\* and "exit" triggers a lookup, for site number k, exactly when it is a
\* number k with 1 <= k <= n, and the loop then stays at the detail prompt;
\* any other answer triggers no lookup, prints the error and re-prompts.
\* (A lookup that ends in make_nearby_instance_list's KeyError is C7's and
\* is not held against this claim.)
C3_DetailChoice ==
  [][ pc = "AwaitDetailChoice" /\ option' # BackWord /\ option' # ExitWord =>
        IF /\ isnumeric(option') /\ IntParses(option')
           /\ 1 <= int(option') /\ int(option') <= Len(sites_list)
        THEN /\ lookup'.done
             /\ lookup'.url = sites_list[int(option')].url
             /\ pc' = "AwaitDetailChoice" \/ exc' = "KeyError"
        ELSE /\ ~ lookup'.done
             /\ calls' = <<>>
             /\ pc' = "AwaitDetailChoice"
             /\ trace' # <<>> /\ trace'[1] = EvPrint(InputError) ]_vars

\* C4: for every state of the table, the full name and the abbreviation, in
\* any letter case, resolve to the same state URL, and the listing header
\* names the same state for both: get_key(states, states[name]) = name.
C4_SameStateUrl ==
  pc = "resolved" =>
    /\ res.full.branch = "url"
    /\ res.abbr.branch = "url"
    /\ res.full.state_url = res.abbr.state_url
    /\ res.full.header = res.abbr.header
    /\ get_key(states, Get(states, states[arg.i][1])) = states[arg.i][1]

\* "New Hampshire" and "NH"
C4_Witness ==
  /\ pc = "resolved"
  /\ arg.full_case = "title" /\ arg.abbr_case = "upper"
  /\ states[arg.i][1] = <<"n","e","w"," ","h","a","m","p","s","h","i","r","e">>
  /\ res.abbr.state_url = StateUrl(<<"n","h">>)
  /\ res.full.header = states[arg.i][1]

\* C5: a state whose page lists no site gives an empty site list, a listing
\* with no entry and the detail prompt; there every answer is "back", "exit"
\* or re-prompted, and no error is raised.
C5_ZeroSites ==
  [][ /\ pc = "AwaitState" /\ ResolveState(state').branch = "url"
         /\ (\A v \in Snapshots : Page(ResolveState(state').state_url, v).results = <<>>)
         => /\ pc' = "AwaitDetailChoice"
            /\ sites_list' = <<>>
            /\ exc' = NoExc
            /\ \A i \in 1..Len(trace') :
                 trace'[i].ev = "print" => Head(trace'[i].what) # "["
      /\ pc = "AwaitDetailChoice" /\ sites_list = <<>>
         => /\ exc' = NoExc
            /\ \/ option' = BackWord /\ pc' = "AwaitState"
               \/ option' = ExitWord /\ pc' = "Terminate"
               \/ pc' = "AwaitDetailChoice" /\ ~ lookup'.done ]_vars

Blank(o) == ~ o.present \/ strip(o.text) = <<>>

\* C6: in get_site_instance each of category, address, zip code and phone is
\* the field's placeholder when its node is missing or its text is empty
\* after trimming, and the extracted text otherwise.
C6_Placeholders ==
  pc = "parsed" /\ res.exc = NoExc =>
    /\ res.site.category =
         IF Blank(arg.category) THEN NotFoundCategory ELSE strip(arg.category.text)
    /\ res.site.zipcode =
         IF ~ arg.footer \/ ~ arg.adr \/ Blank(arg.postal) THEN NotFoundZipcode
         ELSE strip(arg.postal.text)
    /\ res.site.address =
         IF ~ arg.footer \/ ~ arg.adr \/ ~ arg.locality.present \/ ~ arg.region.present
           THEN NotFoundAddress
         ELSE arg.locality.text \o <<", ">> \o arg.region.text
    /\ res.site.phone =
         IF ~ arg.footer \/ Blank(arg.tel) THEN NotFoundPhone ELSE strip_nl(arg.tel.text)

\* C7: make_nearby_instance_list never raises on a missing field; street
\* address and city are the trimmed value, or the placeholder when missing or
\* empty; category is the primary field, else the alternate field, else the
\* placeholder.
C7_SilentSubstitution ==
  pc = "converted" =>
    /\ res.exc = NoExc
    /\ Len(res.list) = Len(arg.searchResults)
    /\ \A i \in 1..Len(arg.searchResults) :
         LET f == arg.searchResults[i].fields
         IN /\ res.list[i].street_address =
                 IF Blank(f.address) THEN NoStreetAddress ELSE strip(f.address.text)
            /\ res.list[i].city_name =
                 IF Blank(f.city) THEN NoCity ELSE strip(f.city.text)
            /\ res.list[i].category =
                 IF ~ Blank(f.group_sic_code_name) THEN strip(f.group_sic_code_name.text)
                 ELSE IF ~ Blank(f.group_sic_code_name_ext)
                   THEN strip(f.group_sic_code_name_ext.text)
                 ELSE NoCategory

C9_DocumentedEdges ==
  [][ /\ pc = "AwaitState" =>
           IF ResolveState(state').branch = "url" THEN
             /\ pc' = "AwaitDetailChoice"
             /\ \E i \in 1..Len(trace') :
                  trace'[i] = EvPrint(<<"List of national sites in", " ">> \o HeaderState(state'))
           ELSE IF ResolveState(state').branch = "exit" THEN
             pc' = "Terminate" /\ trace' = <<>> /\ calls' = <<>> /\ file' = file
           ELSE
             /\ pc' = "AwaitState"
             /\ trace' = <<EvPrint(StateError)>>
             /\ calls' = <<>>
             /\ file' = file
      /\ pc = "AwaitDetailChoice" =>
           IF option' = BackWord THEN pc' = "AwaitState"
           ELSE IF option' = ExitWord THEN
             pc' = "Terminate" /\ trace' = <<>> /\ calls' = <<>> /\ file' = file
           ELSE pc' = "AwaitDetailChoice" ]_vars

\* C10: the places response used for a selected site is the API's answer to a
\* query whose origin is that site's own zip code, and the places printed
\* are the records made from it.
C10_OwnZipCode ==
  lookup.done =>
    /\ \E v \in Snapshots : lookup.nearbyplace = Places(ApiParams(lookup.site), v)
    /\ lookup.listed = make_nearby_instance_list(lookup.nearbyplace).list

====
